---- MODULE Spec2Model ----
(***************************************************************************)
(* SecretaryRoutine (src/src/automation/routines/secretary.py) as a state  *)
(* machine.  Every method is a sequence of steps, one per call to a device *)
(* collaborator (template matching, taps, OCR, back-navigation); the       *)
(* collaborators' results are inputs chosen with \E.  pc is the position   *)
(* in the method, stack the return addresses of the calling methods.       *)
(*                                                                         *)
(* Time: `now` is datetime.datetime.now().  An input event (humanized_tap, *)
(* a find_and_tap_template that taps, press_back), together with the       *)
(* human_delay that follows it, takes one tick; template matching and OCR  *)
(* take no tick.  Steps that tick are disabled at the horizon MaxTime.     *)
(***************************************************************************)
EXTENDS Integers, Sequences, FiniteSets, TLC

\* ------------------------------------------------------------------ bounds
\* horizon of the clock
MaxTime == 14
\* latest session time at which an operation is entered in Init
MaxStart == 1
\* saturation value of the history counters iters and acted
MaxCount == 6
\* latest time at which a scan for positions to remove is entered in Init
MaxScanNow == 4
\* most matches a find_all_templates call returns (besides a full page)
MaxMatches == 2
\* longest time between the end of a cycle and the start of the next
MaxIdle == 1

\* --------------------------------------------------------- program constants
max_attempts == 10
MaxProcessed == 5
ScrollThreshold == 5
RejectTolerance == 10
DefaultOffsetX == 150
DefaultOffsetY == 50

secretary_types == <<"strategy", "security", "development", "science", "interior">>
additionalTypes == <<"military", "administrative">>
AllTypes == secretary_types \o additionalTypes
Positions == {AllTypes[i] : i \in 1..Len(AllTypes)}

\* ------------------------------------------------------------------ helpers
Abs(n) == IF n < 0 THEN -n ELSE n

\* key=lambda x: (x[1], x[0]): a point is <<x, y>>, ordered by y, then by x
KeyLess(p, q) == p[2] < q[2] \/ (p[2] = q[2] /\ p[1] < q[1])

RECURSIVE InsertSorted(_, _)
InsertSorted(p, s) ==
    IF s = <<>> THEN <<p>>
    ELSE IF KeyLess(p, Head(s)) THEN <<p>> \o s
    ELSE <<Head(s)>> \o InsertSorted(p, Tail(s))

\* sorted(matches, key=...): a stable sort of the list of matches
RECURSIVE SortedMatches(_)
SortedMatches(m) ==
    IF m = <<>> THEN <<>>
    ELSE InsertSorted(m[Len(m)], SortedMatches(SubSeq(m, 1, Len(m) - 1)))

Saturate(n) == IF n < MaxCount THEN n + 1 ELSE MaxCount

NoValue == "none"
\* no point: an absent match, a local not yet assigned
NoPoint == <<>>

\* ------------------------------------------------------- collaborator inputs
\* lists without repetition, of at most n points of S, in any order:
\* find_all_templates returns its matches unordered
RECURSIVE MatchLists(_, _)
MatchLists(S, n) ==
    IF n = 0 THEN {<<>>}
    ELSE LET shorter == MatchLists(S, n - 1)
         IN  shorter \cup {Append(m, p) : m \in {l \in shorter : Len(l) = n - 1},
                                         p \in S}

Distinct(m) == \A i, j \in 1..Len(m) : i # j => m[i] # m[j]

\* a full page of applicant rows, as the matcher may list them
FullPage == << <<1, 600>>, <<1, 100>>, <<1, 500>>, <<1, 200>>, <<1, 400>>, <<1, 300>> >>
AcceptPts == {<<1, 100>>, <<2, 99>>}
AcceptMatches == {m \in MatchLists(AcceptPts, MaxMatches) : Distinct(m)} \cup {FullPage}
RejectPts == {<<5, 89>>, <<5, 90>>, <<5, 111>>}
RejectMatches == {m \in MatchLists(RejectPts, MaxMatches) : Distinct(m)}

\* texts extract_text_from_region may return, and the configured whitelists
Alliances == {"ABC", "abc"}
Whitelists == {{}, {"ABC"}}
\* positions a visit is made to in Init
VisitNames == {"science"}

\* the positions whose timer and configured delay vary in Init
ScanFocus == {"science", "military"}
\* auto_remove.title_cfg: a delay in seconds, or no entry (0)
Delays == {0, 2, 3}
TitleCfgs == {c \in [Positions -> Delays] : \A p \in Positions \ ScanFocus : c[p] = 0}

\* where the icon of each position is on the secretary menu
IconAt(p) ==
    CASE p = "strategy" -> <<200, 100>>
      [] p = "security" -> <<600, 100>>
      [] p = "development" -> <<1000, 100>>
      [] p = "science" -> <<200, 300>>
      [] p = "interior" -> <<600, 300>>
      [] p = "military" -> <<1000, 300>>
      [] OTHER -> <<200, 500>>
\* "has_applicant" badges: around the strategy icon at the edges of the default
\* and of the narrow offset box, and on the military icon
BadgePts == {<<350, 150>>, <<351, 150>>, <<350, 151>>, <<50, 50>>, <<300, 130>>,
             <<301, 130>>, <<1000, 300>>}
\* "has_applicant" badges of a menu on which only science and military are shown
MenuBadgePts == {<<200, 300>>, <<1000, 300>>}
\* the positions shown on that menu
MenuShown == {"science", "military"}
Offsets == {<<DefaultOffsetX, DefaultOffsetY>>, <<100, 30>>}

VARIABLES
    pc,             \* position in the running method
    stack,          \* return addresses of the callers
    ret,            \* value returned by the last method that returned
    now,            \* datetime.datetime.now()
    last_approve,   \* self.last_approve
    name,           \* argument of process_secretary_position / process_remove_position
    whitelist,      \* CONTROL_LIST['whitelist']['alliance']
    attempt,        \* exit_to_secretary_menu: the loop variable
    anchored,       \* device: the "president" anchor image is on screen
    backs,          \* history: press_back calls of the current exit_to_secretary_menu
    anchorAt,       \* history: number of press_back calls after which the anchor first showed
    processed,      \* process_secretary_position: processed
    accepted,       \* process_secretary_position: accepted
    accept_locations,   \* process_secretary_position: accept_locations
    topmost_accept, \* process_secretary_position: topmost_accept
    alliance_text,  \* process_secretary_position: alliance_text
    reject_buttons, \* process_secretary_position: reject_buttons
    visitStart,     \* history: the time at which the visit was entered
    iters,          \* history: iterations of the admission loop begun in this visit
    acted,          \* history: accept, reject and direct confirm taps of this visit
    iterTaps,       \* history: the taps of the current iteration, in order
    logged,         \* history: log_rejected_alliance was called in the current iteration
    title_cfg,      \* CONFIG['auto_remove']['title_cfg'], 0 where a position has no entry
    applicant_offset,   \* CONFIG.get("applicant_offset", {"x": 150, "y": 50})
    idx,            \* the position of a scan's loop in secretary_types + additionalTypes
    all_positions,  \* find_positions_with_applicants: all_positions
    applicant_locations,    \* find_positions_with_applicants: applicant_locations
    positions_to_process,   \* find_positions_with_applicants: positions_to_process
    positions_to_remove,    \* find_positions_to_remove: positions_to_remove
    probe,          \* history: what the last iteration of find_positions_to_remove saw
    removeTaps,     \* history: the taps of process_remove_position after the position tap
    sawEmptyList,   \* history: process_remove_position found "empty_list"
    sawAppoint,     \* history: process_remove_position found "appoint"
    shown,          \* device: the positions whose icon is on the secretary menu
    badgeArea,      \* device: the places where a "has_applicant" badge may be matched
    auto_remove_active, \* CONFIG.get("auto_remove", {}) and CONFIG["auto_remove"].get("active", True)
    recoveries,     \* history: calls of exit_to_secretary_menu in the current visit
    entry,          \* history: how far the entry of process_secretary_position got
    visited,        \* history: the process_secretary_position visits begun in this cycle
    evicted,        \* history: the process_remove_position visits begun in this cycle
    scanned,        \* history: find_positions_with_applicants was called in this cycle
    probed,         \* history: the position the sanity probe of this cycle tapped
    evictFailed     \* history: a process_remove_position visit of this cycle returned False

ctlVars == <<pc, stack, ret>>
cfgVars == <<whitelist, title_cfg, applicant_offset, shown, badgeArea, auto_remove_active>>
cycleVars == <<visited, evicted, scanned, probed, evictFailed>>
scanVars == <<idx, all_positions, applicant_locations, positions_to_process,
              positions_to_remove, probe>>
removeVars == <<removeTaps, sawEmptyList, sawAppoint>>
exitVars == <<attempt, anchored, backs, anchorAt, recoveries>>
countVars == <<processed, accepted>>
iterLocals == <<accept_locations, topmost_accept, alliance_text, reject_buttons>>
iterHist == <<iterTaps, logged>>
visitHist == <<visitStart, entry, iters, acted>>
admitVars == <<countVars, iterLocals, iterHist, visitHist>>

vars == <<pc, stack, ret, now, last_approve, name, cfgVars, exitVars, admitVars, scanVars,
          removeVars, cycleVars>>

\* find_all_templates(position_type): no match, the icon, or the icon after
\* another match; no match for a position that is not on the menu
IconMatches(p) ==
    IF p \notin shown THEN {<<>>}
    ELSE IF p = "strategy"
    THEN {<<>>, <<IconAt(p)>>, << <<210, 110>>, IconAt(p) >>}
    ELSE {<<>>, <<IconAt(p)>>}
\* find_all_templates("has_applicant"): the matches, in any order
BadgeMatches == {m \in MatchLists(badgeArea, MaxMatches) : Distinct(m)}

\* ------------------------------------------------------------ call / return
Return(v) ==
    /\ ret' = v
    /\ IF stack = <<>>
       THEN pc' = "done" /\ stack' = stack
       ELSE pc' = Head(stack) /\ stack' = Tail(stack)

\* entering exit_to_secretary_menu: the screen the caller left is not known
CallExit(retpc) ==
    /\ pc' = "exit_loop"
    /\ stack' = <<retpc>> \o stack
    /\ attempt' = 0
    /\ backs' = 0
    /\ recoveries' = recoveries + 1
    /\ \E a \in BOOLEAN :
          /\ anchored' = a
          /\ anchorAt' = (IF a THEN 0 ELSE -1)
    /\ ret' = ret

\* ------------------------------------------------ exit_to_secretary_menu
\* for _ in range(max_attempts)
ExitLoopContinuesOffByOne(i) == i <= max_attempts
ExitLoopContinues(i) == i < max_attempts

\* an anchor check that never succeeds
verify_never == FALSE

\* verify_secretary_menu(): wait_for_image("president") is not None
verify_secretary_menu == anchored

\* if self.verify_secretary_menu(): return True
ExitVerified ==
    /\ pc = "exit_loop"
    /\ ExitLoopContinues(attempt)
    /\ verify_secretary_menu
    /\ Return(TRUE)
    /\ UNCHANGED <<now, last_approve, name, cfgVars, cycleVars, scanVars, removeVars, exitVars, admitVars>>

\* press_back(self.device_id); human_delay(menu_animation)
ExitPressBack ==
    /\ pc = "exit_loop"
    /\ ExitLoopContinues(attempt)
    /\ ~verify_secretary_menu
    /\ now < MaxTime
    /\ now' = now + 1
    /\ backs' = backs + 1
    /\ attempt' = attempt + 1
    /\ recoveries' = recoveries
    /\ \E a \in BOOLEAN :
          /\ anchored' = a
          /\ anchorAt' = (IF a /\ anchorAt = -1 THEN backs + 1 ELSE anchorAt)
    /\ UNCHANGED <<ctlVars, last_approve, name, cfgVars, cycleVars, scanVars, removeVars, admitVars>>

\* recovery reporting success when its press_back calls are used up
ExitExhaustedReturnsTrue ==
    /\ pc = "exit_loop"
    /\ ~ExitLoopContinues(attempt)
    /\ Return(TRUE)
    /\ UNCHANGED <<now, last_approve, name, cfgVars, cycleVars, scanVars, removeVars,
                   exitVars, admitVars>>

\* the loop is exhausted: log the error, return False
ExitExhausted ==
    /\ pc = "exit_loop"
    /\ ~ExitLoopContinues(attempt)
    /\ Return(FALSE)
    /\ UNCHANGED <<now, last_approve, name, cfgVars, cycleVars, scanVars, removeVars, exitVars, admitVars>>

\* ------------------------------------------------ process_secretary_position
\* find_accept_buttons / find_reject_buttons: the matches sorted by (y, x)
find_accept_buttons(matches) == SortedMatches(matches)
find_reject_buttons(matches) == SortedMatches(matches)

\* while processed < 5
AdmitLoopContinues(n) == n < MaxProcessed

\* if alliance_text in CONTROL_LIST['whitelist']['alliance']
InWhitelist(text, wl) == text \in wl

\* if abs(reject_button[1] - topmost_accept[1]) <= 10
Aligned(rb, ta) == Abs(rb[2] - ta[2]) <= RejectTolerance

\* self.last_approve[name] = datetime.datetime.now()
TouchTimerStale(la, p, t) == la
TouchTimerAll(la, p, t) == [q \in DOMAIN la |-> t]
\* a write that puts the timer back to the start of the clock
TouchTimerEpoch(la, p, t) == [la EXCEPT ![p] = 0]

TouchTimer(la, p, t) == [la EXCEPT ![p] = t]

\* back at the loop head the locals of the iteration are dead: each is assigned
\* before it is read again, and the history of the iteration starts afresh
EndIteration ==
    /\ accept_locations' = <<>>
    /\ topmost_accept' = NoPoint
    /\ alliance_text' = NoValue
    /\ reject_buttons' = <<>>
    /\ iterTaps' = <<>>
    /\ logged' = FALSE

\* an iteration of the admission loop begins
BeginIteration ==
    /\ iters' = Saturate(iters)
    /\ UNCHANGED <<visitStart, entry, acted>>

\* find_and_tap_template(name) did not find the position: return True
PspPositionMissing ==
    /\ pc = "psp_tap_position"
    /\ Return(TRUE)
    /\ entry' = "missing"
    /\ UNCHANGED <<now, last_approve, name, cfgVars, cycleVars, scanVars, removeVars, exitVars, countVars, iterLocals, iterHist, visitStart, iters, acted>>

\* find_and_tap_template(name) tapped the position; human_delay(tap_delay)
PspTapPosition ==
    /\ pc = "psp_tap_position"
    /\ now < MaxTime
    /\ now' = now + 1
    /\ pc' = "psp_full_list"
    /\ entry' = "tapped"
    /\ UNCHANGED <<stack, ret, last_approve, name, cfgVars, cycleVars, scanVars, removeVars, exitVars, countVars, iterLocals, iterHist, visitStart, iters, acted>>

\* the full-list indicator not ending the visit
PspFullListGoesOn ==
    /\ pc = "psp_full_list"
    /\ entry' = "full"
    /\ pc' = "psp_tap_list"
    /\ UNCHANGED <<stack, ret, now, last_approve, name, cfgVars, cycleVars, scanVars,
                   removeVars, exitVars, countVars, iterLocals, iterHist, visitStart,
                   iters, acted>>

\* full_list = find_template("full_list"): found, go to recovery
PspFullList ==
    /\ pc = "psp_full_list"
    /\ CallExit("psp_return")
    /\ entry' = "full"
    /\ UNCHANGED <<now, last_approve, name, cfgVars, cycleVars, scanVars, removeVars, countVars, iterLocals, iterHist, visitStart, iters, acted>>

\* full_list not found
PspNotFull ==
    /\ pc = "psp_full_list"
    /\ pc' = "psp_tap_list"
    /\ UNCHANGED <<stack, ret, now, last_approve, name, cfgVars, cycleVars, scanVars, removeVars, exitVars, admitVars>>

\* find_and_tap_template("list") failed: return False
PspListMissing ==
    /\ pc = "psp_tap_list"
    /\ Return(FALSE)
    /\ entry' = "nolist"
    /\ UNCHANGED <<now, last_approve, name, cfgVars, cycleVars, scanVars, removeVars, exitVars, countVars, iterLocals, iterHist, visitStart, iters, acted>>

\* find_and_tap_template("list") tapped the list button
PspTapList ==
    /\ pc = "psp_tap_list"
    /\ now < MaxTime
    /\ now' = now + 1
    /\ pc' = "psp_first_scan"
    /\ entry' = "opened"
    /\ UNCHANGED <<stack, ret, last_approve, name, cfgVars, cycleVars, scanVars, removeVars, exitVars, countVars, iterLocals, iterHist, visitStart, iters, acted>>

\* accept_locations = self.find_accept_buttons(): none, go to recovery
PspNoApplicants ==
    /\ pc = "psp_first_scan"
    /\ accept_locations' = find_accept_buttons(<<>>)
    /\ CallExit("psp_return")
    /\ UNCHANGED <<now, last_approve, name, cfgVars, cycleVars, scanVars, removeVars, countVars, topmost_accept,
                   alliance_text, reject_buttons, iterHist, visitHist>>

\* accept_locations found; more than 5 of them: handle_swipes(up) and a delay;
\* processed = 0; accepted = 0
PspFirstScan ==
    /\ pc = "psp_first_scan"
    /\ \E m \in AcceptMatches \ {<<>>} :
          /\ accept_locations' = find_accept_buttons(m)
          /\ IF Len(find_accept_buttons(m)) > ScrollThreshold
             THEN now < MaxTime /\ now' = now + 1
             ELSE now' = now
    /\ processed' = 0
    /\ accepted' = 0
    /\ pc' = "psp_loop"
    /\ UNCHANGED <<stack, ret, last_approve, name, cfgVars, cycleVars, scanVars, removeVars, exitVars, topmost_accept,
                   alliance_text, reject_buttons, iterHist, visitHist>>

\* while processed < 5 is false: leave the loop, go to recovery
PspLoopEnd ==
    /\ pc = "psp_loop"
    /\ ~AdmitLoopContinues(processed)
    /\ CallExit("psp_return")
    /\ UNCHANGED <<now, last_approve, name, cfgVars, cycleVars, scanVars, removeVars, admitVars>>

\* take_screenshot failed, or cv2.imread returned None: break
PspNoScreenshot ==
    /\ pc = "psp_loop"
    /\ AdmitLoopContinues(processed)
    /\ BeginIteration
    /\ CallExit("psp_return")
    /\ UNCHANGED <<now, last_approve, name, cfgVars, cycleVars, scanVars, removeVars, countVars, iterLocals, iterHist>>

\* the screenshot was taken; accept_locations = self.find_accept_buttons() is empty: break
PspListEmpty ==
    /\ pc = "psp_loop"
    /\ AdmitLoopContinues(processed)
    /\ BeginIteration
    /\ accept_locations' = find_accept_buttons(<<>>)
    /\ CallExit("psp_return")
    /\ UNCHANGED <<now, last_approve, name, cfgVars, cycleVars, scanVars, removeVars, countVars, topmost_accept,
                   alliance_text, reject_buttons, iterHist>>

\* the screenshot was taken; topmost_accept = accept_locations[0];
\* if len(CONTROL_LIST['whitelist']['alliance']) > 0
PspLocate ==
    /\ pc = "psp_loop"
    /\ AdmitLoopContinues(processed)
    /\ BeginIteration
    /\ \E m \in AcceptMatches \ {<<>>} :
          /\ accept_locations' = find_accept_buttons(m)
          /\ topmost_accept' = find_accept_buttons(m)[1]
    /\ pc' = (IF Cardinality(whitelist) > 0 THEN "psp_ocr" ELSE "psp_accept_all")
    /\ UNCHANGED <<stack, ret, now, last_approve, name, cfgVars, cycleVars, scanVars, removeVars, exitVars, countVars,
                   alliance_text, reject_buttons, iterHist>>

\* get_text_regions; alliance_text, original_text = extract_text_from_region(...)
PspExtractText ==
    /\ pc = "psp_ocr"
    /\ \E t \in Alliances : alliance_text' = t
    /\ pc' = "psp_decide"
    /\ UNCHANGED <<stack, ret, now, last_approve, name, cfgVars, cycleVars, scanVars, removeVars, exitVars, countVars,
                   accept_locations, topmost_accept, reject_buttons, iterHist, visitHist>>

\* the text extraction raises: except Exception
PspExtractRaises ==
    /\ pc = "psp_ocr"
    /\ pc' = "psp_except"
    /\ UNCHANGED <<stack, ret, now, last_approve, name, cfgVars, cycleVars, scanVars, removeVars, exitVars, admitVars>>

\* alliance_text is in the whitelist: humanized_tap(topmost_accept); accepted += 1
PspAcceptWhitelisted ==
    /\ pc = "psp_decide"
    /\ InWhitelist(alliance_text, whitelist)
    /\ now < MaxTime
    /\ now' = now + 1
    /\ iterTaps' = Append(iterTaps, <<"accept", topmost_accept>>)
    /\ acted' = Saturate(acted)
    /\ accepted' = accepted + 1
    /\ pc' = "psp_count"
    /\ UNCHANGED <<stack, ret, last_approve, name, cfgVars, cycleVars, scanVars, removeVars, exitVars, processed,
                   iterLocals, logged, visitStart, entry, iters>>

\* alliance_text is not in the whitelist: log_rejected_alliance(...)
PspLogRejected ==
    /\ pc = "psp_decide"
    /\ ~InWhitelist(alliance_text, whitelist)
    /\ logged' = TRUE
    /\ pc' = "psp_find_reject"
    /\ UNCHANGED <<stack, ret, now, last_approve, name, cfgVars, cycleVars, scanVars, removeVars, exitVars, countVars,
                   iterLocals, iterTaps, visitHist>>

\* reject_buttons = self.find_reject_buttons() is empty
PspNoRejectButtons ==
    /\ pc = "psp_find_reject"
    /\ reject_buttons' = find_reject_buttons(<<>>)
    /\ pc' = "psp_confirm_direct"
    /\ UNCHANGED <<stack, ret, now, last_approve, name, cfgVars, cycleVars, scanVars, removeVars, exitVars, countVars,
                   accept_locations, topmost_accept, alliance_text, iterHist, visitHist>>

\* reject_button = reject_buttons[0] is aligned: humanized_tap(reject_button)
PspTapReject ==
    /\ pc = "psp_find_reject"
    /\ now < MaxTime
    /\ \E m \in RejectMatches \ {<<>>} :
          /\ Aligned(find_reject_buttons(m)[1], topmost_accept)
          /\ reject_buttons' = find_reject_buttons(m)
          /\ iterTaps' = Append(iterTaps, <<"reject", find_reject_buttons(m)[1]>>)
    /\ now' = now + 1
    /\ acted' = Saturate(acted)
    /\ pc' = "psp_confirm_reject"
    /\ UNCHANGED <<stack, ret, last_approve, name, cfgVars, cycleVars, scanVars, removeVars, exitVars, countVars,
                   accept_locations, topmost_accept, alliance_text, logged,
                   visitStart, entry, iters>>

\* reject_button = reject_buttons[0] is not aligned: nothing is tapped
PspRejectNotAligned ==
    /\ pc = "psp_find_reject"
    /\ \E m \in RejectMatches \ {<<>>} :
          /\ ~Aligned(find_reject_buttons(m)[1], topmost_accept)
          /\ reject_buttons' = find_reject_buttons(m)
    /\ pc' = "psp_count"
    /\ UNCHANGED <<stack, ret, now, last_approve, name, cfgVars, cycleVars, scanVars, removeVars, exitVars, countVars,
                   accept_locations, topmost_accept, alliance_text, iterHist, visitHist>>

\* after the reject tap, find_and_tap_template("confirm") tapped
PspConfirmReject ==
    /\ pc = "psp_confirm_reject"
    /\ now < MaxTime
    /\ now' = now + 1
    /\ iterTaps' = Append(iterTaps, <<"confirm", NoPoint>>)
    /\ pc' = "psp_count"
    /\ UNCHANGED <<stack, ret, last_approve, name, cfgVars, cycleVars, scanVars, removeVars, exitVars, countVars,
                   iterLocals, logged, visitHist>>

\* after the reject tap, find_and_tap_template("confirm") failed: continue
PspConfirmRejectFails ==
    /\ pc = "psp_confirm_reject"
    /\ pc' = "psp_loop"
    /\ EndIteration
    /\ UNCHANGED <<stack, ret, now, last_approve, name, cfgVars, cycleVars, scanVars, removeVars, exitVars, countVars,
                   visitHist>>

\* no reject button: find_and_tap_template("confirm") tapped;
\* self.last_approve[name] = datetime.datetime.now()
PspConfirmDirect ==
    /\ pc = "psp_confirm_direct"
    /\ now < MaxTime
    /\ now' = now + 1
    /\ iterTaps' = Append(iterTaps, <<"confirm", NoPoint>>)
    /\ acted' = Saturate(acted)
    /\ last_approve' = TouchTimer(last_approve, name, now')
    /\ pc' = "psp_count"
    /\ UNCHANGED <<stack, ret, name, cfgVars, cycleVars, scanVars, removeVars, exitVars, countVars, iterLocals, logged,
                   visitStart, entry, iters>>

\* no reject button: find_and_tap_template("confirm") failed: continue
PspConfirmDirectFails ==
    /\ pc = "psp_confirm_direct"
    /\ pc' = "psp_loop"
    /\ EndIteration
    /\ UNCHANGED <<stack, ret, now, last_approve, name, cfgVars, cycleVars, scanVars, removeVars, exitVars, countVars,
                   visitHist>>

\* the whitelist is empty: humanized_tap(topmost_accept);
\* self.last_approve[name] = datetime.datetime.now()
PspAcceptAll ==
    /\ pc = "psp_accept_all"
    /\ now < MaxTime
    /\ now' = now + 1
    /\ iterTaps' = Append(iterTaps, <<"accept", topmost_accept>>)
    /\ acted' = Saturate(acted)
    /\ last_approve' = TouchTimer(last_approve, name, now')
    /\ pc' = "psp_count"
    /\ UNCHANGED <<stack, ret, name, cfgVars, cycleVars, scanVars, removeVars, exitVars, countVars, iterLocals, logged,
                   visitStart, entry, iters>>

\* processed += 1; human_delay(settle_time)
PspCount ==
    /\ pc = "psp_count"
    /\ processed' = processed + 1
    /\ pc' = "psp_loop"
    /\ EndIteration
    /\ UNCHANGED <<stack, ret, now, last_approve, name, cfgVars, cycleVars, scanVars, removeVars, exitVars, accepted,
                   visitHist>>

\* the except clause returning true without recovery
PspExceptSwallows ==
    /\ pc = "psp_except"
    /\ Return(TRUE)
    /\ UNCHANGED <<now, last_approve, name, cfgVars, cycleVars, scanVars, removeVars,
                   exitVars, admitVars>>

\* except Exception: recovery
PspExcept ==
    /\ pc = "psp_except"
    /\ CallExit("psp_return")
    /\ UNCHANGED <<now, last_approve, name, cfgVars, cycleVars, scanVars, removeVars, admitVars>>

\* if not self.exit_to_secretary_menu(): return False; return True
PspReturn ==
    /\ pc = "psp_return"
    /\ Return(ret)
    /\ UNCHANGED <<now, last_approve, name, cfgVars, cycleVars, scanVars, removeVars, exitVars, admitVars>>

\* ------------------------------------------------ find_positions_with_applicants
NumTypes == Len(AllTypes)

\* if x_diff <= applicant_offset["x"] and y_diff <= applicant_offset["y"]
NearStrict(badge, pos, off) ==
    Abs(badge[1] - pos[1]) < off[1] /\ Abs(badge[2] - pos[2]) < off[2]
Near(badge, pos, off) ==
    Abs(badge[1] - pos[1]) <= off[1] /\ Abs(badge[2] - pos[2]) <= off[2]

\* for app_x, app_y in applicant_locations: ... append(position_type); break
RECURSIVE AppendIfNear(_, _, _, _, _)
AppendIfNear(result, p, pos, badges, off) ==
    IF badges = <<>> THEN result
    ELSE IF Near(Head(badges), pos, off) THEN Append(result, p)
    ELSE AppendIfNear(result, p, pos, Tail(badges), off)

\* positions = find_all_templates(position_type); all_positions[position_type] = positions[0]
FpaIcon ==
    /\ pc = "fpa_icons"
    /\ \E m \in IconMatches(AllTypes[idx]) :
          all_positions' = IF m # <<>>
                           THEN [all_positions EXCEPT ![AllTypes[idx]] = m[1]]
                           ELSE all_positions
    /\ idx' = idx + 1
    /\ pc' = (IF idx = NumTypes THEN "fpa_badges" ELSE "fpa_icons")
    /\ UNCHANGED <<stack, ret, now, last_approve, name, cfgVars, cycleVars, exitVars, admitVars,
                   applicant_locations, positions_to_process, positions_to_remove, probe,
                   removeVars>>

\* applicant_locations = find_all_templates("has_applicant") is empty: return []
FpaNoBadges ==
    /\ pc = "fpa_badges"
    /\ applicant_locations' = <<>>
    /\ Return(<<>>)
    /\ UNCHANGED <<now, last_approve, name, cfgVars, cycleVars, exitVars, admitVars, idx, all_positions,
                   positions_to_process, positions_to_remove, probe, removeVars>>

\* applicant_locations found
FpaBadges ==
    /\ pc = "fpa_badges"
    /\ \E m \in BadgeMatches \ {<<>>} : applicant_locations' = m
    /\ idx' = 1
    /\ pc' = "fpa_match"
    /\ UNCHANGED <<stack, ret, now, last_approve, name, cfgVars, cycleVars, exitVars, admitVars,
                   all_positions, positions_to_process, positions_to_remove, probe,
                   removeVars>>

\* for position_type, pos_loc in all_positions.items(): the entries are in the
\* order of secretary_types + additionalTypes, a type without entry is passed over
FpaMatch ==
    /\ pc = "fpa_match"
    /\ idx <= NumTypes
    /\ positions_to_process' =
          IF all_positions[AllTypes[idx]] = NoPoint
          THEN positions_to_process
          ELSE AppendIfNear(positions_to_process, AllTypes[idx],
                            all_positions[AllTypes[idx]], applicant_locations,
                            applicant_offset)
    /\ idx' = idx + 1
    /\ UNCHANGED <<ctlVars, now, last_approve, name, cfgVars, cycleVars, exitVars, admitVars,
                   all_positions, applicant_locations, positions_to_remove, probe,
                   removeVars>>

\* return positions_to_process
FpaReturn ==
    /\ pc = "fpa_match"
    /\ idx > NumTypes
    /\ Return(positions_to_process)
    /\ UNCHANGED <<now, last_approve, name, cfgVars, cycleVars, exitVars, admitVars, scanVars,
                   removeVars>>

\* ------------------------------------------------ find_positions_to_remove
\* if approve_td < config_td: continue
InCooldownInclusive(approve_td, config_td) == approve_td <= config_td
InCooldown(approve_td, config_td) == approve_td < config_td

\* if not auto_remove_delay: continue
Configured(p) == title_cfg[p] # 0

FprFrame ==
    UNCHANGED <<now, name, cfgVars, cycleVars, exitVars, admitVars, all_positions,
                applicant_locations, positions_to_process, removeVars>>

\* if not title_cfg: return []
FprNoConfig ==
    /\ pc = "fpr_start"
    /\ \A p \in Positions : ~Configured(p)
    /\ Return(<<>>)
    /\ UNCHANGED <<last_approve, idx, positions_to_remove, probe>>
    /\ FprFrame

\* positions_to_remove = []; for position_type in secretary_types
FprStart ==
    /\ pc = "fpr_start"
    /\ \E p \in Positions : Configured(p)
    /\ positions_to_remove' = <<>>
    /\ idx' = 1
    /\ pc' = "fpr_loop"
    /\ UNCHANGED <<stack, ret, last_approve, probe>>
    /\ FprFrame

\* no delay is configured for position_type: continue
FprNotConfigured ==
    /\ pc = "fpr_loop"
    /\ idx <= NumTypes
    /\ ~Configured(AllTypes[idx])
    /\ idx' = idx + 1
    /\ probe' = <<NoValue, NoValue>>
    /\ UNCHANGED <<ctlVars, last_approve, positions_to_remove>>
    /\ FprFrame

\* approve_td < config_td: continue
FprCooling ==
    /\ pc = "fpr_loop"
    /\ idx <= NumTypes
    /\ Configured(AllTypes[idx])
    /\ InCooldown(now - last_approve[AllTypes[idx]], title_cfg[AllTypes[idx]])
    /\ idx' = idx + 1
    /\ probe' = <<NoValue, NoValue>>
    /\ UNCHANGED <<ctlVars, last_approve, positions_to_remove>>
    /\ FprFrame

\* find_template("vacant-" + position_type) found:
\* self.last_approve[position_type] = datetime.datetime.now(); continue
FprVacant ==
    /\ pc = "fpr_loop"
    /\ idx <= NumTypes
    /\ Configured(AllTypes[idx])
    /\ ~InCooldown(now - last_approve[AllTypes[idx]], title_cfg[AllTypes[idx]])
    /\ last_approve' = TouchTimer(last_approve, AllTypes[idx], now)
    /\ idx' = idx + 1
    /\ probe' = <<"yes", NoValue>>
    /\ UNCHANGED <<ctlVars, positions_to_remove>>
    /\ FprFrame

\* not vacant; position = find_template(position_type) found:
\* positions_to_remove.append(position_type)
FprCandidate ==
    /\ pc = "fpr_loop"
    /\ idx <= NumTypes
    /\ Configured(AllTypes[idx])
    /\ ~InCooldown(now - last_approve[AllTypes[idx]], title_cfg[AllTypes[idx]])
    /\ positions_to_remove' = Append(positions_to_remove, AllTypes[idx])
    /\ idx' = idx + 1
    /\ probe' = <<"no", "yes">>
    /\ UNCHANGED <<ctlVars, last_approve>>
    /\ FprFrame

\* not vacant; find_template(position_type) found nothing
FprIconMissing ==
    /\ pc = "fpr_loop"
    /\ idx <= NumTypes
    /\ Configured(AllTypes[idx])
    /\ ~InCooldown(now - last_approve[AllTypes[idx]], title_cfg[AllTypes[idx]])
    /\ idx' = idx + 1
    /\ probe' = <<"no", "no">>
    /\ UNCHANGED <<ctlVars, last_approve, positions_to_remove>>
    /\ FprFrame

\* return positions_to_remove
FprReturn ==
    /\ pc = "fpr_loop"
    /\ idx > NumTypes
    /\ Return(positions_to_remove)
    /\ UNCHANGED <<last_approve, idx, positions_to_remove, probe>>
    /\ FprFrame

\* ------------------------------------------------ process_remove_position
PrpFrame == UNCHANGED <<name, cfgVars, cycleVars, admitVars, scanVars>>

\* find_and_tap_template(name) did not find the position: return True
PrpPositionMissing ==
    /\ pc = "prp_tap_position"
    /\ Return(TRUE)
    /\ UNCHANGED <<now, last_approve, exitVars, removeVars>>
    /\ PrpFrame

\* find_and_tap_template(name) tapped the position; human_delay(tap_delay)
PrpTapPosition ==
    /\ pc = "prp_tap_position"
    /\ now < MaxTime
    /\ now' = now + 1
    /\ pc' = "prp_queue"
    /\ UNCHANGED <<stack, ret, last_approve, exitVars, removeVars>>
    /\ PrpFrame

\* find_template("empty_list") found nothing: players are still queued;
\* self.last_approve[name] = datetime.datetime.now()
PrpStillQueued ==
    /\ pc = "prp_queue"
    /\ sawEmptyList' = "no"
    /\ last_approve' = TouchTimer(last_approve, name, now)
    /\ CallExit("prp_return")
    /\ UNCHANGED <<now, removeTaps, sawAppoint>>
    /\ PrpFrame

\* find_template("empty_list") found
PrpQueueEmpty ==
    /\ pc = "prp_queue"
    /\ sawEmptyList' = "yes"
    /\ pc' = "prp_appoint"
    /\ UNCHANGED <<stack, ret, now, last_approve, exitVars, removeTaps, sawAppoint>>
    /\ PrpFrame

\* find_template("appoint") found nothing: the timer is not over yet;
\* self.last_approve[name] = datetime.datetime.now()
PrpNoAppointee ==
    /\ pc = "prp_appoint"
    /\ sawAppoint' = "no"
    /\ last_approve' = TouchTimer(last_approve, name, now)
    /\ CallExit("prp_return")
    /\ UNCHANGED <<now, removeTaps, sawEmptyList>>
    /\ PrpFrame

\* find_template("appoint") found
PrpAppointee ==
    /\ pc = "prp_appoint"
    /\ sawAppoint' = "yes"
    /\ pc' = "prp_dismiss"
    /\ UNCHANGED <<stack, ret, now, last_approve, exitVars, removeTaps, sawEmptyList>>
    /\ PrpFrame

\* find_and_tap_template("dismiss") tapped; human_delay(tap_delay)
PrpDismiss ==
    /\ pc = "prp_dismiss"
    /\ now < MaxTime
    /\ now' = now + 1
    /\ removeTaps' = Append(removeTaps, "dismiss")
    /\ pc' = "prp_confirm"
    /\ UNCHANGED <<stack, ret, last_approve, exitVars, sawEmptyList, sawAppoint>>
    /\ PrpFrame

\* find_and_tap_template("dismiss") failed
PrpDismissFails ==
    /\ pc = "prp_dismiss"
    /\ CallExit("prp_return")
    /\ UNCHANGED <<now, last_approve, removeVars>>
    /\ PrpFrame

\* find_and_tap_template("confirm-blue") tapped; human_delay(tap_delay);
\* self.last_approve[name] = datetime.datetime.now()
PrpConfirm ==
    /\ pc = "prp_confirm"
    /\ now < MaxTime
    /\ now' = now + 1
    /\ removeTaps' = Append(removeTaps, "confirm-blue")
    /\ last_approve' = TouchTimer(last_approve, name, now')
    /\ CallExit("prp_return")
    /\ UNCHANGED <<sawEmptyList, sawAppoint>>
    /\ PrpFrame

\* find_and_tap_template("confirm-blue") failed
PrpConfirmFails ==
    /\ pc = "prp_confirm"
    /\ CallExit("prp_return")
    /\ UNCHANGED <<now, last_approve, removeVars>>
    /\ PrpFrame

\* if not self.exit_to_secretary_menu(): return False ... return True
PrpReturn ==
    /\ pc = "prp_return"
    /\ Return(ret)
    /\ UNCHANGED <<now, last_approve, exitVars, removeVars>>
    /\ PrpFrame

\* ------------------------------------------------ the cycle: _execute_internal
\* a method is called: its return address is pushed
Call(entrypc, retpc) ==
    /\ pc' = entrypc
    /\ stack' = <<retpc>> \o stack
    /\ ret' = ret

\* an exception leaves every method of the cycle: _execute_internal has no
\* handler, execute_with_error_handling receives it
Raise ==
    /\ pc' = "raised"
    /\ stack' = <<>>
    /\ ret' = ret

\* the locals and the history of a visit, as they are when the visit is entered
EnterVisit ==
    /\ processed' = 0
    /\ accepted' = 0
    /\ accept_locations' = <<>>
    /\ topmost_accept' = NoPoint
    /\ alliance_text' = NoValue
    /\ reject_buttons' = <<>>
    /\ visitStart' = now
    /\ entry' = "start"
    /\ iters' = 0
    /\ acted' = 0
    /\ iterTaps' = <<>>
    /\ logged' = FALSE
    /\ attempt' = 0
    /\ backs' = 0
    /\ anchored' = FALSE
    /\ anchorAt' = -1
    /\ recoveries' = 0
    /\ removeTaps' = <<>>
    /\ sawEmptyList' = NoValue
    /\ sawAppoint' = NoValue

\* the locals of the scans, as they are when a scan is entered
EnterScan ==
    /\ idx' = 1
    /\ all_positions' = [p \in Positions |-> NoPoint]
    /\ applicant_locations' = <<>>
    /\ probe' = <<NoValue, NoValue>>

\* _execute starts a cycle, d after the session started or the last cycle ended
StartCycle(d) ==
    /\ now + d <= MaxTime
    /\ now' = now + d
    /\ pc' = "exec_start"
    /\ stack' = <<>>
    /\ ret' = NoValue
    /\ name' = NoValue
    /\ EnterVisit
    /\ EnterScan
    /\ positions_to_process' = <<>>
    /\ positions_to_remove' = <<>>
    /\ visited' = <<>>
    /\ evicted' = <<>>
    /\ scanned' = FALSE
    /\ probed' = NoValue
    /\ evictFailed' = FALSE
    /\ UNCHANGED <<last_approve, cfgVars>>

\* the first cycle of the session
Execute ==
    /\ pc = "idle"
    /\ StartCycle(0)

\* a later cycle: the previous one returned, or raised
ExecuteAgain ==
    /\ pc \in {"done", "raised"}
    /\ \E d \in 0..MaxIdle : StartCycle(d)

\* self.open_profile_menu(): humanized_tap on the profile; when the "awesome"
\* notification shows, a tap on it and press_back; the result is not used
ExecOpenProfile ==
    /\ pc = "exec_start"
    /\ \E ticks \in {1, 3} :
          /\ now + ticks <= MaxTime
          /\ now' = now + ticks
    /\ pc' = "exec_capitol"
    /\ UNCHANGED <<stack, ret, last_approve, name, cfgVars, exitVars, admitVars, scanVars,
                   removeVars, cycleVars>>

\* find_and_tap_template("capitol_menu") failed: return False
ExecCapitolMissing ==
    /\ pc = "exec_capitol"
    /\ Return(FALSE)
    /\ UNCHANGED <<now, last_approve, name, cfgVars, exitVars, admitVars, scanVars,
                   removeVars, cycleVars>>

\* find_and_tap_template("capitol_menu") tapped; handle_swipes(down); human_delay
ExecCapitol ==
    /\ pc = "exec_capitol"
    /\ now < MaxTime
    /\ now' = now + 1
    /\ pc' = "exec_auto_remove"
    /\ UNCHANGED <<stack, ret, last_approve, name, cfgVars, exitVars, admitVars, scanVars,
                   removeVars, cycleVars>>

\* auto_remove is configured and active: self.process_all_auto_remove_positions()
ExecAutoRemove ==
    /\ pc = "exec_auto_remove"
    /\ auto_remove_active
    /\ Call("parp_start", "exec_admit")
    /\ UNCHANGED <<now, last_approve, name, cfgVars, exitVars, admitVars, scanVars,
                   removeVars, cycleVars>>

\* auto_remove is absent or not active
ExecNoAutoRemove ==
    /\ pc = "exec_auto_remove"
    /\ ~auto_remove_active
    /\ pc' = "exec_admit"
    /\ UNCHANGED <<stack, ret, now, last_approve, name, cfgVars, exitVars, admitVars,
                   scanVars, removeVars, cycleVars>>

\* return self.process_all_secretary_positions(): the value returned by
\* process_all_auto_remove_positions has not been read
ExecAdmit ==
    /\ pc = "exec_admit"
    /\ Call("pasp_start", "exec_return")
    /\ UNCHANGED <<now, last_approve, name, cfgVars, exitVars, admitVars, scanVars,
                   removeVars, cycleVars>>

\* _execute_internal going back to eviction after the admissions
ExecReturnEvicts ==
    /\ pc = "exec_return"
    /\ Call("parp_start", "exec_done")
    /\ UNCHANGED <<now, last_approve, name, cfgVars, exitVars, admitVars, scanVars,
                   removeVars, cycleVars>>

ExecReturn ==
    /\ pc = "exec_return"
    /\ Return(ret)
    /\ UNCHANGED <<now, last_approve, name, cfgVars, exitVars, admitVars, scanVars,
                   removeVars, cycleVars>>

\* ------------------------------------------------ process_all_auto_remove_positions
\* positions_to_remove = self.find_positions_to_remove()
ParpStart ==
    /\ pc = "parp_start"
    /\ Call("fpr_start", "parp_found")
    /\ EnterScan
    /\ positions_to_remove' = <<>>
    /\ UNCHANGED <<now, last_approve, name, cfgVars, exitVars, admitVars,
                   positions_to_process, removeVars, cycleVars>>

\* the list returned is the list the loop goes through
ParpFound ==
    /\ pc = "parp_found"
    /\ positions_to_remove' = ret
    /\ EnterScan
    /\ pc' = "parp_loop"
    /\ UNCHANGED <<stack, ret, now, last_approve, name, cfgVars, exitVars, admitVars,
                   positions_to_process, removeVars, cycleVars>>

\* for position_type in positions_to_remove: self.process_remove_position(position_type)
ParpVisit ==
    /\ pc = "parp_loop"
    /\ idx <= Len(positions_to_remove)
    /\ name' = positions_to_remove[idx]
    /\ evicted' = Append(evicted, positions_to_remove[idx])
    /\ Call("prp_tap_position", "parp_check")
    /\ EnterVisit
    /\ UNCHANGED <<now, last_approve, cfgVars, scanVars, visited, scanned, probed,
                   evictFailed>>

\* if not self.process_remove_position(position_type): return False
ParpAbort ==
    /\ pc = "parp_check"
    /\ ret = FALSE
    /\ evictFailed' = TRUE
    /\ Return(FALSE)
    /\ UNCHANGED <<now, last_approve, name, cfgVars, exitVars, admitVars, scanVars,
                   removeVars, visited, evicted, scanned, probed>>

\* the visit returned True: the next position
ParpNext ==
    /\ pc = "parp_check"
    /\ ret = TRUE
    /\ idx' = idx + 1
    /\ pc' = "parp_loop"
    /\ UNCHANGED <<stack, ret, now, last_approve, name, cfgVars, exitVars, admitVars,
                   all_positions, applicant_locations, positions_to_process,
                   positions_to_remove, probe, removeVars, cycleVars>>

\* the loop is over: return True
ParpDone ==
    /\ pc = "parp_loop"
    /\ idx > Len(positions_to_remove)
    /\ Return(TRUE)
    /\ UNCHANGED <<now, last_approve, name, cfgVars, exitVars, admitVars, scanVars,
                   removeVars, cycleVars>>

\* ------------------------------------------------ process_all_secretary_positions
\* positions_to_process = self.find_positions_with_applicants()
PaspStart ==
    /\ pc = "pasp_start"
    /\ Call("fpa_icons", "pasp_found")
    /\ EnterScan
    /\ positions_to_process' = <<>>
    /\ scanned' = TRUE
    /\ UNCHANGED <<now, last_approve, name, cfgVars, exitVars, admitVars,
                   positions_to_remove, removeVars, visited, evicted, probed, evictFailed>>

\* if not positions_to_process: the sanity probe; otherwise the loop
PaspFound ==
    /\ pc = "pasp_found"
    /\ positions_to_process' = ret
    /\ EnterScan
    /\ pc' = (IF ret = <<>> THEN "pasp_probe" ELSE "pasp_loop")
    /\ UNCHANGED <<stack, ret, now, last_approve, name, cfgVars, exitVars, admitVars,
                   positions_to_remove, removeVars, cycleVars>>

\* find_and_tap_template(self.secretary_types[0]) failed:
\* raise RuntimeError('secretary not accessible')
PaspProbeMissing ==
    /\ pc = "pasp_probe"
    /\ Raise
    /\ UNCHANGED <<now, last_approve, name, cfgVars, exitVars, admitVars, scanVars,
                   removeVars, cycleVars>>

\* find_and_tap_template(self.secretary_types[0]) tapped; human_delay(tap_delay)
PaspProbeTap ==
    /\ pc = "pasp_probe"
    /\ now < MaxTime
    /\ now' = now + 1
    /\ probed' = secretary_types[1]
    /\ pc' = "pasp_probe_list"
    /\ UNCHANGED <<stack, ret, last_approve, name, cfgVars, exitVars, admitVars, scanVars,
                   removeVars, visited, evicted, scanned, evictFailed>>

\* the sanity probe returning false where the code raises
PaspProbeNoListReturns ==
    /\ pc = "pasp_probe_list"
    /\ Return(FALSE)
    /\ UNCHANGED <<now, last_approve, name, cfgVars, exitVars, admitVars, scanVars,
                   removeVars, cycleVars>>

\* find_template("list") found nothing: raise RuntimeError('secretary not accessible')
PaspProbeNoList ==
    /\ pc = "pasp_probe_list"
    /\ Raise
    /\ UNCHANGED <<now, last_approve, name, cfgVars, exitVars, admitVars, scanVars,
                   removeVars, cycleVars>>

\* find_template("list") found: return True
PaspProbeList ==
    /\ pc = "pasp_probe_list"
    /\ Return(TRUE)
    /\ UNCHANGED <<now, last_approve, name, cfgVars, exitVars, admitVars, scanVars,
                   removeVars, cycleVars>>

\* for name in positions_to_process: self.process_secretary_position(name)
PaspVisit ==
    /\ pc = "pasp_loop"
    /\ idx <= Len(positions_to_process)
    /\ name' = positions_to_process[idx]
    /\ visited' = Append(visited, positions_to_process[idx])
    /\ Call("psp_tap_position", "pasp_check")
    /\ EnterVisit
    /\ UNCHANGED <<now, last_approve, cfgVars, scanVars, evicted, scanned, probed,
                   evictFailed>>

\* process_all_secretary_positions with the test of the visit's result left out
PaspAbortContinues ==
    /\ pc = "pasp_check"
    /\ ret = FALSE
    /\ idx' = idx + 1
    /\ pc' = "pasp_loop"
    /\ UNCHANGED <<stack, ret, now, last_approve, name, cfgVars, exitVars, admitVars,
                   all_positions, applicant_locations, positions_to_process,
                   positions_to_remove, probe, removeVars, cycleVars>>

\* if not self.process_secretary_position(name): return False
PaspAbort ==
    /\ pc = "pasp_check"
    /\ ret = FALSE
    /\ Return(FALSE)
    /\ UNCHANGED <<now, last_approve, name, cfgVars, exitVars, admitVars, scanVars,
                   removeVars, cycleVars>>

\* the visit returned True: the next position
PaspNext ==
    /\ pc = "pasp_check"
    /\ ret = TRUE
    /\ idx' = idx + 1
    /\ pc' = "pasp_loop"
    /\ UNCHANGED <<stack, ret, now, last_approve, name, cfgVars, exitVars, admitVars,
                   all_positions, applicant_locations, positions_to_process,
                   positions_to_remove, probe, removeVars, cycleVars>>

\* the loop is over: return True
PaspDone ==
    /\ pc = "pasp_loop"
    /\ idx > Len(positions_to_process)
    /\ Return(TRUE)
    /\ UNCHANGED <<now, last_approve, name, cfgVars, exitVars, admitVars, scanVars,
                   removeVars, cycleVars>>

\* -------------------------------------------------------------- initial states
\* self.last_approve = {position: datetime.datetime.now() ...}: one session
\* start time for all positions; the operation is entered at or after it
SessionStates ==
    /\ now \in 0..MaxStart
    /\ \E t0 \in 0..MaxStart :
          /\ t0 <= now
          /\ last_approve = [p \in Positions |-> t0]

NoExit ==
    /\ attempt = 0
    /\ backs = 0
    /\ anchored = FALSE
    /\ anchorAt = -1
    /\ recoveries = 0

NoAdmission ==
    /\ processed = 0
    /\ accepted = 0
    /\ accept_locations = <<>>
    /\ topmost_accept = NoPoint
    /\ alliance_text = NoValue
    /\ reject_buttons = <<>>
    /\ visitStart = now
    /\ entry = "start"
    /\ iters = 0
    /\ acted = 0
    /\ iterTaps = <<>>
    /\ logged = FALSE

\* every position is on the menu, badges may be matched anywhere around them;
\* the auto_remove section is present and active
FullMenu ==
    /\ shown = Positions
    /\ badgeArea = BadgePts
    /\ auto_remove_active = TRUE

NoCycle ==
    /\ visited = <<>>
    /\ evicted = <<>>
    /\ scanned = FALSE
    /\ probed = NoValue
    /\ evictFailed = FALSE

NoConfig ==
    /\ whitelist = {}
    /\ title_cfg = [p \in Positions |-> 0]
    /\ applicant_offset = <<DefaultOffsetX, DefaultOffsetY>>
    /\ FullMenu

NoScan ==
    /\ idx = 1
    /\ all_positions = [p \in Positions |-> NoPoint]
    /\ applicant_locations = <<>>
    /\ positions_to_process = <<>>
    /\ positions_to_remove = <<>>
    /\ probe = <<NoValue, NoValue>>

NoRemoval ==
    /\ removeTaps = <<>>
    /\ sawEmptyList = NoValue
    /\ sawAppoint = NoValue

\* ---------------------------------------------- exit_to_secretary_menu alone
InitExit ==
    /\ pc = "exit_loop"
    /\ stack = <<>>
    /\ ret = NoValue
    /\ SessionStates
    /\ name = NoValue
    /\ attempt = 0
    /\ backs = 0
    /\ anchored \in BOOLEAN
    /\ anchorAt = (IF anchored THEN 0 ELSE -1)
    /\ recoveries = 1
    /\ NoConfig
    /\ NoAdmission
    /\ NoScan
    /\ NoRemoval
    /\ NoCycle

NextExit == ExitVerified \/ ExitPressBack \/ ExitExhausted

SpecExit == InitExit /\ [][NextExit]_vars

\* ------------------------------------------ one process_secretary_position visit
InitAdmit ==
    /\ pc = "psp_tap_position"
    /\ stack = <<>>
    /\ ret = NoValue
    /\ SessionStates
    /\ name \in VisitNames
    /\ NoExit
    /\ whitelist \in Whitelists
    /\ title_cfg = [p \in Positions |-> 0]
    /\ applicant_offset = <<DefaultOffsetX, DefaultOffsetY>>
    /\ FullMenu
    /\ NoAdmission
    /\ NoScan
    /\ NoRemoval
    /\ NoCycle

NextAdmit ==
    \/ PspPositionMissing \/ PspTapPosition \/ PspFullList \/ PspNotFull
    \/ PspListMissing \/ PspTapList \/ PspNoApplicants \/ PspFirstScan
    \/ PspLoopEnd \/ PspNoScreenshot \/ PspListEmpty \/ PspLocate
    \/ PspExtractText \/ PspExtractRaises \/ PspAcceptWhitelisted \/ PspLogRejected
    \/ PspNoRejectButtons \/ PspTapReject \/ PspRejectNotAligned
    \/ PspConfirmReject \/ PspConfirmRejectFails
    \/ PspConfirmDirect \/ PspConfirmDirectFails
    \/ PspAcceptAll \/ PspCount \/ PspExcept \/ PspReturn
    \/ ExitVerified \/ ExitPressBack \/ ExitExhausted

SpecAdmit == InitAdmit /\ [][NextAdmit]_vars

\* ------------------------------------------ find_positions_with_applicants alone
InitFindApplicants ==
    /\ pc = "fpa_icons"
    /\ stack = <<>>
    /\ ret = NoValue
    /\ now = 0
    /\ last_approve = [p \in Positions |-> 0]
    /\ name = NoValue
    /\ NoExit
    /\ whitelist = {}
    /\ title_cfg = [p \in Positions |-> 0]
    /\ applicant_offset \in Offsets
    /\ FullMenu
    /\ NoAdmission
    /\ NoScan
    /\ NoRemoval
    /\ NoCycle

NextFindApplicants == FpaIcon \/ FpaNoBadges \/ FpaBadges \/ FpaMatch \/ FpaReturn

SpecFindApplicants == InitFindApplicants /\ [][NextFindApplicants]_vars

\* ------------------------------------------ find_positions_to_remove alone
\* a later cycle of the session: the timers of the positions differ
InitFindRemove ==
    /\ pc = "fpr_start"
    /\ stack = <<>>
    /\ ret = NoValue
    /\ now \in 0..MaxScanNow
    /\ last_approve \in [Positions -> 0..MaxStart]
    /\ \A p \in Positions : last_approve[p] <= now
    /\ \A p \in Positions \ ScanFocus : last_approve[p] = 0
    /\ name = NoValue
    /\ NoExit
    /\ whitelist = {}
    /\ title_cfg \in TitleCfgs
    /\ applicant_offset = <<DefaultOffsetX, DefaultOffsetY>>
    /\ FullMenu
    /\ NoAdmission
    /\ NoScan
    /\ NoRemoval
    /\ NoCycle

NextFindRemove ==
    \/ FprNoConfig \/ FprStart \/ FprNotConfigured \/ FprCooling \/ FprVacant
    \/ FprCandidate \/ FprIconMissing \/ FprReturn

SpecFindRemove == InitFindRemove /\ [][NextFindRemove]_vars

\* ------------------------------------------ one process_remove_position visit
InitRemove ==
    /\ pc = "prp_tap_position"
    /\ stack = <<>>
    /\ ret = NoValue
    /\ SessionStates
    /\ name \in VisitNames
    /\ NoExit
    /\ NoConfig
    /\ NoAdmission
    /\ NoScan
    /\ NoRemoval
    /\ NoCycle

NextRemove ==
    \/ PrpPositionMissing \/ PrpTapPosition \/ PrpStillQueued \/ PrpQueueEmpty
    \/ PrpNoAppointee \/ PrpAppointee \/ PrpDismiss \/ PrpDismissFails
    \/ PrpConfirm \/ PrpConfirmFails \/ PrpReturn
    \/ ExitVerified \/ ExitPressBack \/ ExitExhausted

SpecRemove == InitRemove /\ [][NextRemove]_vars

\* ------------------------------------------ one cycle
\* the whitelist is empty in a cycle: every candidate of a visit is accepted
\* the configurations of the cycle: no delay configured, or a delay for each
\* of the two positions shown
CycleCfgs == {[p \in Positions |-> 0],
              [p \in Positions |-> IF p = "science" THEN 2
                                    ELSE IF p = "military" THEN 3 ELSE 0]}

InitCycle ==
    /\ pc = "idle"
    /\ stack = <<>>
    /\ ret = NoValue
    /\ now = 0
    /\ last_approve = [p \in Positions |-> 0]
    /\ name = NoValue
    /\ NoExit
    /\ whitelist = {}
    /\ title_cfg \in CycleCfgs
    /\ applicant_offset = <<DefaultOffsetX, DefaultOffsetY>>
    /\ shown = MenuShown
    /\ badgeArea = MenuBadgePts
    /\ auto_remove_active \in BOOLEAN
    /\ NoAdmission
    /\ NoScan
    /\ NoRemoval
    /\ NoCycle

\* the steps of process_secretary_position that an empty whitelist allows
NextAdmitAll ==
    \/ PspPositionMissing \/ PspTapPosition \/ PspFullList \/ PspNotFull
    \/ PspListMissing \/ PspTapList \/ PspNoApplicants \/ PspFirstScan
    \/ PspLoopEnd \/ PspNoScreenshot \/ PspListEmpty \/ PspLocate
    \/ PspAcceptAll \/ PspCount \/ PspReturn

NextCycle ==
    \/ Execute \/ ExecOpenProfile \/ ExecCapitolMissing \/ ExecCapitol
    \/ ExecAutoRemove \/ ExecNoAutoRemove \/ ExecAdmit \/ ExecReturn
    \/ ParpStart \/ ParpFound \/ ParpVisit \/ ParpAbort \/ ParpNext \/ ParpDone
    \/ PaspStart \/ PaspFound \/ PaspProbeMissing \/ PaspProbeTap
    \/ PaspProbeNoList \/ PaspProbeList \/ PaspVisit \/ PaspAbort \/ PaspNext
    \/ PaspDone
    \/ NextFindRemove \/ NextRemove \/ NextFindApplicants \/ NextAdmitAll

SpecCycle == InitCycle /\ [][NextCycle]_vars

\* ------------------------------------------ the cycles of a session
\* over several cycles one position is shown, with a delay configured
SessionShown == {"science"}

InitSession ==
    /\ pc = "idle"
    /\ stack = <<>>
    /\ ret = NoValue
    /\ SessionStates
    /\ name = NoValue
    /\ NoExit
    /\ whitelist = {}
    /\ title_cfg \in {[p \in Positions |-> 0],
                      [p \in Positions |-> IF p \in SessionShown THEN 3 ELSE 0]}
    /\ applicant_offset = <<DefaultOffsetX, DefaultOffsetY>>
    /\ shown = SessionShown
    /\ badgeArea = {IconAt(p) : p \in SessionShown}
    /\ auto_remove_active \in BOOLEAN
    /\ NoAdmission
    /\ NoScan
    /\ NoRemoval
    /\ NoCycle

NextSession == NextCycle \/ ExecuteAgain

SpecSession == InitSession /\ [][NextSession]_vars

\* ------------------------------------------ one visit, of either kind
InitVisit == InitAdmit \/ InitRemove

NextVisit == NextAdmit \/ NextRemove

SpecVisit == InitVisit /\ [][NextVisit]_vars

\* ===================================================================== claims

\* C1 as stated: when the anchor first shows after k <= 10 press_back calls,
\* recovery returns true after exactly k press_back calls; when it never shows,
\* recovery returns false after exactly 10 press_back calls.
C1_RecoveryWithinTenAsStated ==
    pc = "done" =>
        /\ anchorAt \in 0..max_attempts => (ret = TRUE /\ backs = anchorAt)
        /\ anchorAt = -1 => (ret = FALSE /\ backs = max_attempts)

\* C1 amended: recovery never presses back more than 10 times; when the anchor
\* first shows after k <= 9 press_back calls, it returns true after exactly k
\* press_back calls; otherwise (the anchor never shows, or shows only after the
\* 10th press_back, which is not followed by a check) it returns false after
\* exactly 10 press_back calls.
C1_RecoveryWithinTen ==
    /\ backs <= max_attempts
    /\ pc = "done" =>
          /\ anchorAt \in 0..(max_attempts - 1) => (ret = TRUE /\ backs = anchorAt)
          /\ anchorAt \notin 0..(max_attempts - 1) => (ret = FALSE /\ backs = max_attempts)

\* C1 witness: the anchor showed after the 9th press_back and recovery returned true
C1_Witness == pc = "done" /\ ret = TRUE /\ backs = max_attempts - 1 /\ anchorAt = backs

\* C2 as stated: with a non-empty whitelist, a visit in which accept was tapped
\* for a whitelisted candidate has written last_approve[name] during the visit.
C2_AdmissionUpdatesTimer ==
    (pc = "done" /\ whitelist # {} /\ accepted > 0) => last_approve[name] > visitStart

\* C3 as stated: with a non-empty whitelist, a candidate counted as processed was
\* tapped accept iff its text is in the whitelist, and otherwise was logged as
\* rejected and received a reject tap followed by confirm, or a direct confirm tap.
C3_NeverSilentlyDropped ==
    [][(whitelist # {} /\ processed' = processed + 1) =>
          IF alliance_text \in whitelist
          THEN iterTaps = << <<"accept", topmost_accept>> >>
          ELSE /\ logged
               /\ iterTaps # <<>>
               /\ \A i \in 1..Len(iterTaps) : iterTaps[i][1] \in {"reject", "confirm"}
               /\ iterTaps[Len(iterTaps)][1] = "confirm"]_vars

\* the reject controls of a list that are within 10 px of the accept control's y
AlignedIndexes(rbs, ta) ==
    {i \in 1..Len(rbs) : rbs[i][2] - ta[2] \in -10..10}

\* C4 as stated: when a candidate is rejected, the topmost reject control within
\* 10 px of the accept control's y is tapped; and when no reject control is
\* within 10 px, the confirm control is tried directly.
C4_TopmostAlignedReject ==
    [][pc = "psp_find_reject" =>
          LET al == AlignedIndexes(reject_buttons', topmost_accept)
          IN  IF al # {}
              THEN \E i \in al :
                      /\ \A j \in al : i <= j
                      /\ iterTaps' = Append(iterTaps, <<"reject", reject_buttons'[i]>>)
              ELSE iterTaps' = iterTaps /\ pc' = "psp_confirm_direct"]_vars

\* C5 as stated: in one visit at most 5 accept, reject and direct confirm taps
\* are issued on candidates.
C5_AtMostFiveActedUpon == acted <= MaxProcessed

\* C6 as stated: the admission loop runs at most 5 iterations in a visit,
\* whatever the collaborators return.
C6_AtMostFiveIterations == iters <= MaxProcessed

\* C7: with an empty whitelist, a located candidate goes to the accept tap with
\* no text extraction; the tap is on the topmost accept control, it is the only
\* tap of the iteration, and it sets last_approve[name] to the current time,
\* strictly later than its previous value.
C7_AcceptAll ==
    [][whitelist = {} =>
          /\ (pc = "psp_loop" /\ pc' \notin {"psp_loop", "exit_loop"}) =>
                /\ pc' = "psp_accept_all"
                /\ accept_locations' # <<>>
                /\ topmost_accept' = accept_locations'[1]
                /\ \A i \in 1..Len(accept_locations') :
                      \/ topmost_accept'[2] < accept_locations'[i][2]
                      \/ /\ topmost_accept'[2] = accept_locations'[i][2]
                         /\ topmost_accept'[1] <= accept_locations'[i][1]
          /\ pc = "psp_accept_all" =>
                /\ iterTaps' = << <<"accept", topmost_accept>> >>
                /\ last_approve'[name] = now'
                /\ last_approve'[name] > last_approve[name]
                /\ pc' = "psp_count"
          /\ processed' = processed + 1 =>
                /\ iterTaps = << <<"accept", topmost_accept>> >>
                /\ alliance_text = NoValue
                /\ ~logged]_vars

\* C7 witness: a second candidate was accepted with an empty whitelist
C7_Witness ==
    /\ whitelist = {}
    /\ pc = "psp_count"
    /\ processed = 1
    /\ iterTaps = << <<"accept", topmost_accept>> >>
    /\ last_approve[name] = now

\* C8: in find_positions_to_remove, for a position with a configured delay D
\* and d = now - last_approve: with d < D nothing is probed, the position is not
\* appended and no timer changes; with d >= D the vacancy is probed, and a
\* position seen not vacant with its icon present is appended; a position is
\* appended only with d >= D; no other position's timer changes; and every
\* position returned has d >= D for its own timer and delay.
C8_CooldownPerPosition ==
    /\ [][(pc = "fpr_loop" /\ idx <= NumTypes /\ title_cfg[AllTypes[idx]] # 0) =>
            LET p == AllTypes[idx]
                d == now - last_approve[p]
                D == title_cfg[p]
            IN  /\ d < D => /\ positions_to_remove' = positions_to_remove
                            /\ last_approve' = last_approve
                            /\ probe' = <<NoValue, NoValue>>
                /\ d >= D => probe'[1] \in {"yes", "no"}
                /\ (d >= D /\ probe' = <<"no", "yes">>) =>
                      positions_to_remove' = Append(positions_to_remove, p)
                /\ positions_to_remove' # positions_to_remove => d >= D
                /\ \A q \in Positions \ {p} : last_approve'[q] = last_approve[q]]_vars
    /\ [](pc = "done" =>
            \A i \in 1..Len(ret) :
               /\ title_cfg[ret[i]] # 0
               /\ now - last_approve[ret[i]] >= title_cfg[ret[i]])

\* C8 witness: science is returned exactly at d = D while military, configured
\* with another delay, is still in its cooldown and is not returned
C8_Witness ==
    /\ pc = "done"
    /\ ret = <<"science">>
    /\ now - last_approve["science"] = title_cfg["science"]
    /\ title_cfg["military"] # 0
    /\ title_cfg["military"] # title_cfg["science"]
    /\ now - last_approve["military"] < title_cfg["military"]

\* C9: find_positions_with_applicants returns a position iff its icon was found
\* and some badge is within offset.x and offset.y of it, bounds included; no
\* position is returned twice; with no badge the result is empty.
C9_ProximityBox ==
    pc = "done" =>
        /\ \A p \in Positions :
              (\E i \in 1..Len(ret) : ret[i] = p) <=>
                 /\ all_positions[p] # NoPoint
                 /\ \E j \in 1..Len(applicant_locations) :
                       /\ applicant_locations[j][1] - all_positions[p][1]
                             \in -applicant_offset[1]..applicant_offset[1]
                       /\ applicant_locations[j][2] - all_positions[p][2]
                             \in -applicant_offset[2]..applicant_offset[2]
        /\ \A i, j \in 1..Len(ret) : ret[i] = ret[j] => i = j
        /\ applicant_locations = <<>> => ret = <<>>

\* C9 witness: one badge at exactly the default offset from the strategy icon
C9_Witness ==
    /\ pc = "done"
    /\ applicant_offset = <<DefaultOffsetX, DefaultOffsetY>>
    /\ all_positions["strategy"] = <<200, 100>>
    /\ applicant_locations = << <<350, 150>> >>
    /\ ret = <<"strategy">>

\* C10: in process_remove_position, with the queue empty and an appointee
\* shown, the taps are dismiss and then confirm, confirm only after a dismiss
\* that succeeded; last_approve[name] is set to the current time iff both taps
\* succeeded and is otherwise unchanged; and recovery follows.
C10_DismissThenConfirm ==
    /\ [][(sawEmptyList = "yes" /\ sawAppoint = "yes"
             /\ pc \in {"prp_dismiss", "prp_confirm"}) =>
            /\ removeTaps' \in {<<>>, <<"dismiss">>, <<"dismiss", "confirm-blue">>}
            /\ pc' \in {"prp_confirm", "exit_loop"}
            /\ pc' = "prp_confirm" <=> (pc = "prp_dismiss" /\ removeTaps' = <<"dismiss">>)
            /\ IF removeTaps' = <<"dismiss", "confirm-blue">>
               THEN last_approve' = [last_approve EXCEPT ![name] = now']
               ELSE last_approve' = last_approve]_vars
    /\ []((pc = "done" /\ sawEmptyList = "yes" /\ sawAppoint = "yes") =>
            /\ last_approve[name] > visitStart
                  <=> removeTaps = <<"dismiss", "confirm-blue">>
            /\ ret \in BOOLEAN
            /\ ret = TRUE => anchored)

\* C10 witness: both taps succeeded, the timer was reset, recovery succeeded
C10_Witness ==
    /\ pc = "done"
    /\ sawEmptyList = "yes"
    /\ sawAppoint = "yes"
    /\ removeTaps = <<"dismiss", "confirm-blue">>
    /\ last_approve[name] > visitStart
    /\ ret = TRUE

\* C11: in process_remove_position, when "empty_list" is not found (players are
\* still queued), last_approve[name] is set to the current time and nothing
\* else changes it, no dismiss and no confirm tap is issued in the visit, and
\* the visit goes to recovery.
C11_QueuePrecedesEviction ==
    /\ [][(pc = "prp_queue" /\ sawEmptyList' = "no") =>
            /\ last_approve' = [last_approve EXCEPT ![name] = now]
            /\ removeTaps' = <<>>
            /\ pc' = "exit_loop"]_vars
    /\ [](sawEmptyList = "no" =>
            /\ removeTaps = <<>>
            /\ sawAppoint = NoValue
            /\ pc \in {"exit_loop", "prp_return", "done"}
            /\ last_approve[name] = visitStart + 1
            /\ last_approve[name] = now - backs)

\* C11 witness: the queue was not empty, the timer was reset after the position
\* tap, and the visit returned after a recovery that pressed back
C11_Witness ==
    /\ pc = "done"
    /\ sawEmptyList = "no"
    /\ removeTaps = <<>>
    /\ backs > 0
    /\ last_approve[name] = now - backs
    /\ last_approve[name] > visitStart

\* C12: process_all_secretary_positions visits the positions returned by
\* find_positions_with_applicants in their order, a visit begins only after the
\* previous one returned true, and when a visit returns false the method
\* returns false at once and the cycle ends with false.
C12_AbortOnFirstFalse ==
    /\ [](visited # <<>> =>
            /\ Len(visited) <= Len(positions_to_process)
            /\ \A i \in 1..Len(visited) : visited[i] = positions_to_process[i])
    /\ [][visited' # visited =>
            /\ pc = "pasp_loop"
            /\ visited' = Append(visited, positions_to_process[Len(visited) + 1])
            /\ name' = positions_to_process[Len(visited) + 1]
            /\ visited # <<>> => ret = TRUE]_vars
    /\ [][(pc = "pasp_check" /\ ret = FALSE) =>
            /\ pc' = "exec_return"
            /\ ret' = FALSE
            /\ now' = now]_vars
    /\ [][pc = "exec_return" =>
            /\ pc' = "done"
            /\ ret' = ret
            /\ now' = now
            /\ visited' = visited]_vars

\* C12 witness: two positions were discovered, the visit to the first returned
\* false, the second was not visited and the cycle returned false
C12_Witness ==
    /\ pc = "done"
    /\ positions_to_process = <<"science", "military">>
    /\ visited = <<"science">>
    /\ ret = FALSE

\* C13 as stated: once a process_remove_position visit has returned false (its
\* recovery failed), the cycle is abandoned: no further eviction visit, no scan
\* for applicants, no sanity probe and no admission visit happen in the cycle,
\* and the cycle returns false.
C13_FailedEvictionAbandonsCycle ==
    evictFailed =>
        /\ ~scanned
        /\ visited = <<>>
        /\ probed = NoValue
        /\ pc = "done" => ret = FALSE

\* C14: when find_positions_with_applicants returns no position, the cycle
\* taps the first core position and then looks for the list control; when the
\* tap fails or the list control is not found a RuntimeError leaves the cycle,
\* which returns nothing; when both succeed process_all_secretary_positions
\* returns true; no position is visited.
C14_SanityProbe ==
    /\ [][(pc = "pasp_found" /\ ret = <<>>) => pc' = "pasp_probe"]_vars
    /\ [][pc = "pasp_probe" =>
            \/ pc' = "raised" /\ stack' = <<>> /\ probed' = NoValue /\ now' = now
            \/ pc' = "pasp_probe_list" /\ probed' = secretary_types[1] /\ now' = now + 1]_vars
    /\ [][pc = "pasp_probe_list" =>
            \/ pc' = "raised" /\ stack' = <<>>
            \/ pc' = "exec_return" /\ ret' = TRUE]_vars
    /\ []((pc \in {"pasp_probe", "pasp_probe_list", "raised"} \/ probed # NoValue) =>
            /\ scanned
            /\ positions_to_process = <<>>
            /\ visited = <<>>)
    /\ []((pc = "done" /\ probed # NoValue) => ret = TRUE)
    /\ [][pc = "raised" => pc' = "raised"]_vars

\* C14 witness: the position was tapped, the list control was not found, and
\* the cycle raised
C14_Witness ==
    /\ pc = "raised"
    /\ probed = "strategy"
    /\ scanned
    /\ visited = <<>>

\* the methods of the eviction half of a cycle
EvictionPcs ==
    {"parp_start", "parp_found", "parp_loop", "parp_check", "fpr_start", "fpr_loop",
     "prp_tap_position", "prp_queue", "prp_appoint", "prp_dismiss", "prp_confirm",
     "prp_return"}
InEviction == pc \in EvictionPcs \/ \E i \in 1..Len(stack) : stack[i] \in EvictionPcs
\* a visit to a position is in progress
VisitFrames == {i \in 1..Len(stack) : stack[i] \in {"parp_check", "pasp_check"}}

\* C18: in a cycle, the scan for positions to remove and every
\* process_remove_position visit are over before find_positions_with_applicants
\* is called and before any process_secretary_position visit or sanity probe;
\* one visit is in progress at a time, it is the visit to `name`, and `name`
\* changes only when no visit is in progress.
C18_EvictionBeforeAdmission ==
    /\ [](InEviction => (~scanned /\ visited = <<>> /\ probed = NoValue))
    /\ [][evicted' # evicted => (~scanned' /\ visited' = <<>>)]_vars
    /\ [][(scanned' /\ ~scanned) => (pc = "pasp_start" /\ ~InEviction)]_vars
    /\ [](VisitFrames # {} =>
            /\ Cardinality(VisitFrames) = 1
            /\ name = (IF InEviction THEN evicted[Len(evicted)] ELSE visited[Len(visited)]))
    /\ [][name' # name => VisitFrames = {}]_vars
    /\ [][(now' # now /\ pc # "idle" /\ pc \notin {"exec_start", "exec_capitol", "pasp_probe"})
             => (VisitFrames # {} /\ VisitFrames' # {})]_vars

\* C18 witness: science was visited for eviction, then two positions were
\* visited for admission, and the cycle returned true
C18_Witness ==
    /\ pc = "done"
    /\ evicted = <<"science">>
    /\ visited = <<"science", "military">>
    /\ ret = TRUE

\* C15: once the list was opened, process_secretary_position ends only through
\* exit_to_secretary_menu, called once, and returns its result: true when the
\* anchor was verified, false when the 10 press_back calls were used up; an
\* exception of the visit goes to the except clause, which calls recovery and
\* returns the same way; no exception leaves the method.
C15_ResultIsRecovery ==
    /\ []((pc = "done" /\ entry = "opened") =>
            /\ recoveries = 1
            /\ ret \in BOOLEAN
            /\ ret = TRUE <=> (anchored /\ backs < max_attempts)
            /\ ret = FALSE <=> backs = max_attempts)
    /\ [][pc = "psp_except" =>
            /\ pc' = "exit_loop"
            /\ Head(stack') = "psp_return"
            /\ recoveries' = recoveries + 1]_vars
    /\ [][pc = "psp_return" => (pc' = "done" /\ ret' = ret)]_vars
    /\ [](pc # "raised")

\* C15 witness: the text extraction raised with a candidate located, recovery
\* used up its 10 press_back calls, and the visit returned false
C15_Witness ==
    /\ pc = "done"
    /\ entry = "opened"
    /\ whitelist # {}
    /\ topmost_accept # NoPoint
    /\ alliance_text = NoValue
    /\ backs = max_attempts
    /\ ret = FALSE

\* C16: exit_to_secretary_menu called with the anchor on screen returns true
\* with no press_back call and no time spent; the check of the anchor changes
\* neither the screen, nor the clock, nor the timers.
C16_IdempotentRecovery ==
    /\ []((pc = "done" /\ anchorAt = 0) =>
            /\ ret = TRUE
            /\ backs = 0
            /\ attempt = 0
            /\ now = visitStart)
    /\ [][(pc = "exit_loop" /\ attempt < max_attempts /\ anchored) =>
            /\ pc' = "done"
            /\ ret' = TRUE
            /\ anchored' = anchored
            /\ now' = now
            /\ backs' = backs
            /\ last_approve' = last_approve]_vars

\* C16 witness: recovery was entered at the anchor and returned true at once
C16_Witness ==
    /\ pc = "done"
    /\ anchorAt = 0
    /\ backs = 0
    /\ ret = TRUE
    /\ anchored

\* C17 as stated: a process_secretary_position visit that tapped into the
\* position calls exit_to_secretary_menu before it returns, in particular when
\* the list control is not found.
C17_RecoveryBeforeReturn ==
    (pc = "done" /\ entry \in {"tapped", "full", "nolist", "opened"}) => recoveries >= 1

\* C19 as stated: with the full-list indicator present, no list, accept, reject
\* or confirm tap is issued, recovery follows at once, and the visit returns true.
C19_FullListReturnsTrue ==
    entry = "full" =>
        /\ acted = 0
        /\ iterTaps = <<>>
        /\ recoveries = 1
        /\ now = visitStart + 1 + backs
        /\ pc = "done" => ret = TRUE

\* C19 amended: with the full-list indicator present, no list, accept, reject
\* or confirm tap is issued (only the press_back calls of recovery follow the
\* position tap), recovery is called at once, and the visit returns the result
\* of recovery: true when the anchor was verified, false when the 10
\* press_back calls were used up.
C19_FullListSkipsToRecovery ==
    entry = "full" =>
        /\ acted = 0
        /\ iters = 0
        /\ accepted = 0
        /\ iterTaps = <<>>
        /\ recoveries = 1
        /\ now = visitStart + 1 + backs
        /\ pc \in {"exit_loop", "psp_return", "done"}
        /\ pc = "done" => (ret = TRUE <=> backs < max_attempts)

\* C19 witness: the list was full and recovery failed: the visit returned false
C19_Witness ==
    /\ pc = "done"
    /\ entry = "full"
    /\ backs = max_attempts
    /\ ret = FALSE

\* C20: over the cycles of a session, the timers of all positions are equal at
\* the session start; no timer ever decreases; a timer that changes is set to
\* the current time; no timer is later than the clock; and the map always has
\* exactly the seven positions.
C20_TimersNeverRollBack ==
    /\ [](pc = "idle" => \A p, q \in Positions : last_approve[p] = last_approve[q])
    /\ [](DOMAIN last_approve = Positions)
    /\ [](\A p \in Positions : last_approve[p] <= now)
    /\ [][\A p \in Positions :
            /\ last_approve'[p] >= last_approve[p]
            /\ last_approve'[p] # last_approve[p] => last_approve'[p] = now']_vars

\* C20 witness: in a later cycle of the session, an eviction visit to science
\* is under way after its timer, written in an earlier cycle, ran out again
C20_Witness ==
    /\ pc = "prp_queue"
    /\ evicted = <<"science">>
    /\ last_approve["science"] > MaxStart
    /\ now - last_approve["science"] > title_cfg["science"]

\* the visit tapped into its position: process_secretary_position got past the
\* position tap, or process_remove_position looked at the queue
TappedInto ==
    entry \in {"tapped", "full", "nolist", "opened"} \/ sawEmptyList # NoValue

\* C21: when a process_secretary_position or process_remove_position visit
\* that tapped into its position returns true, recovery was called and ended
\* with the anchor verified, before the 10 press_back calls were used up, and
\* neither a tap nor a press_back (no tick of the clock, no change of the
\* screen) comes between that verification and the return; and a step of the
\* visit changes no timer but last_approve[name].
C21_ReturnsFromVerifiedMenu ==
    /\ []((pc \in {"psp_return", "prp_return", "done"} /\ TappedInto /\ ret = TRUE) =>
            /\ recoveries = 1
            /\ anchored
            /\ anchorAt = backs
            /\ backs < max_attempts)
    /\ [][(pc = "exit_loop" /\ pc' # "exit_loop" /\ ret' = TRUE) =>
            /\ anchored
            /\ anchored' = anchored
            /\ now' = now]_vars
    /\ [][(pc = "psp_return" \/ pc = "prp_return") =>
            /\ pc' = "done"
            /\ ret' = ret
            /\ anchored' = anchored
            /\ now' = now]_vars
    /\ [][(\A q \in Positions \ {name} : last_approve'[q] = last_approve[q])]_vars
    /\ [](\A q \in Positions \ {name} : last_approve[q] <= visitStart)

\* C21 witness: an admission visit accepted a candidate, wrote the timer of its
\* position alone, and returned true after recovery pressed back and then
\* verified the anchor
C21_Witness ==
    /\ pc = "done"
    /\ entry = "opened"
    /\ ret = TRUE
    /\ backs > 0
    /\ anchored
    /\ last_approve[name] > visitStart
    /\ \A q \in Positions \ {name} : last_approve[q] <= visitStart

====
